---------------------------- MODULE Spec2Model ----------------------------
(***************************************************************************)
(* Model of the SafeShare-LAN network engine: the TCP transfer listener    *)
(* and sender, pause and resume, and peer discovery of networkManager.js   *)
(* (class NetworkManager), with the IPC handlers of the Electron main      *)
(* process (check-env.js) and the front-end calls that drive them.         *)
(*                                                                         *)
(* One host is modelled.  Remote peers are the environment: they accept,   *)
(* refuse or stall outbound connections and they open inbound connections  *)
(* that deliver a byte stream in arbitrary chunks.  The JavaScript event   *)
(* loop runs one callback at a time, so every callback (with the promise   *)
(* continuations it triggers, which run as microtasks before any other     *)
(* callback) is one atomic action.                                         *)
(***************************************************************************)
EXTENDS Integers, Sequences, FiniteSets, TLC

(***************************************************************************)
(* Bounds of the model.                                                    *)
(***************************************************************************)
MaxConn == 1        \* inbound connections accepted in a run
MaxPayload == 3     \* payload bytes of a framing stream
MaxChunk == 3       \* largest 'data' chunk the socket delivers
MaxTicks == 2       \* clock ticks in a run
MaxCancels == 1     \* 'cancel-transfer' requests in a run
MaxCalls == 2       \* 'transfer-files' requests in a run
MaxFiles == 2       \* files named by the requests of a run, in all
FileSize == 3       \* bytes of a file that is sent
ReadChunk == 2      \* bytes of a chunk of the file read stream
MaxStarts == 2      \* startDiscovery calls in a run
BatchSize == 2      \* addresses in a batch of scanSubnet
OctetBits == 2      \* bits of an octet of an IPv4 address

(***************************************************************************)
(* Program constants.  Time is counted in milliseconds; the clock advances *)
(* in steps of TickSteps.  The header limit of the listener is 65536 bytes *)
(* in the source and is scaled to HeaderLimit bytes here.                  *)
(***************************************************************************)
ThrottleMs == 500
HeaderLimit == 4
IdleTimeoutMs == 5000
TickSteps == {250, 500}

Min(a, b) == IF a < b THEN a ELSE b

(***************************************************************************)
(* Bytes.  "NL" is the newline byte.  The metadata line is JSON in         *)
(* miniature: an object is "{", a list of keys, "}", where key "t" is the  *)
(* transferId member and key "n" the name member.  "x" is any other byte.  *)
(***************************************************************************)
Byte == {"NL", "{", "}", "t", "n", "x"}

SeqsUpTo(S, n) == UNION {[1..k -> S] : k \in 0..n}

ConnIds == 1..MaxConn

\* Transfer ids are opaque strings; <<"recv", c>> is the provisional id the
\* listener generates for connection c, <<"caller", i>> an id supplied by the
\* front end (and carried in the metadata of the files it sends).
ProvisionalId(c) == <<"recv", c>>
CallerIds == {<<"caller", 1>>, <<"caller", 2>>}

NoBytes == 0 - 1

VARIABLES
    activeTransfers,  \* NetworkManager.activeTransfers: Map id -> handle
    events,           \* what mainWindow.webContents.send has sent, in order
    now,              \* Date.now()
    ticks,            \* clock ticks taken (bounds the run)
    conns,            \* per inbound connection: the closure of handleIncomingTransfer
    cancels,          \* the ids of the 'cancel-transfer' requests handled
    batchTransferActive,  \* check-env.js: the process lock of 'transfer-files'
    calls,            \* invocations of the 'transfer-files' handler
    sends,            \* per sendFile call: the closure of its promise executor
    peers,            \* NetworkManager.peers: Map address -> peer
    isScanning,       \* NetworkManager.isScanning
    session,          \* startDiscovery calls so far
    discEvents,       \* discovery events sent to the renderer, in order
    rx,               \* the last datagram handled since the last start
    scanTimers,       \* pending fallback timers of startDiscovery
    probes,           \* the checkPeer sockets that are connecting
    tcpServer,        \* NetworkManager.tcpServer is listening
    udp,              \* NetworkManager.udpSocket: none, binding, bound, unbound
    udpLeaks,         \* bound sockets this.udpSocket no longer refers to
    timerLeaks,       \* running intervals this.broadcastTimer no longer
                      \* refers to
    broadcasting,     \* the interval of startBroadcasting is running
    sweeps,           \* per scanSubnet call: the targets left, the last
                      \* 'discovery-status' it sent to the renderer, and
                      \* the session in which it was called
    scan,             \* a network interface of the host and the targets
                      \* scanSubnet has listed for it
    disk              \* the file at the destination path in the downloads
                      \* directory, and the write streams open on it

sendVars == <<batchTransferActive, calls, sends>>

discVars == <<peers, isScanning, session, discEvents, rx, scanTimers, probes,
              tcpServer, udp, udpLeaks, timerLeaks, broadcasting, sweeps,
              scan>>

vars == <<activeTransfers, events, now, ticks, conns, cancels, sendVars,
          discVars, disk>>

\* No interface has been looked at.
NoScan == [address |-> <<>>, netmask |-> <<>>, done |-> FALSE,
           targets |-> <<>>]

NoDatagram == [odd |-> FALSE, addr |-> "none", msg |-> "none"]

(***************************************************************************)
(* The registry is a JavaScript Map.                                       *)
(***************************************************************************)
MapSet(m, k, v) == [x \in (DOMAIN m) \cup {k} |-> IF x = k THEN v ELSE m[x]]
MapDelete(m, k) == [x \in (DOMAIN m) \ {k} |-> m[x]]
MapHas(m, k) == k \in DOMAIN m
EmptyMap == [x \in {} |-> 0]

RecvHandle(c) == [kind |-> "recv", n |-> c]

(***************************************************************************)
(* Events sent to the renderer.  src names the sender or receiver instance *)
(* that emitted the event and at is the time of the send (they are not     *)
(* part of the payload).                                                   *)
(***************************************************************************)
Event(type, id, status, bytes, src) ==
    [type |-> type, id |-> id, status |-> status, bytes |-> bytes, src |-> src,
     at |-> now]

(***************************************************************************)
(* createProgressTransform: the running byte count after one more chunk.   *)
(***************************************************************************)
ProgressCount_Reset(transferred, chunkLen) == chunkLen

ProgressCount(transferred, chunkLen) == transferred + chunkLen

(***************************************************************************)
(* The throttle of the onProgress callbacks.                               *)
(***************************************************************************)
ThrottleOpen_Always(lastUpdate) == TRUE

ThrottleOpen(lastUpdate) == now - lastUpdate >= ThrottleMs

(***************************************************************************)
(* Metadata parsing of handleIncomingTransfer.                             *)
(***************************************************************************)
\* Buffer.indexOf('\n'), 1-based; 0 when there is none (-1 in the source).
IndexOfNL(buf) ==
    IF \E i \in 1..Len(buf) : buf[i] = "NL"
    THEN CHOOSE i \in 1..Len(buf) :
            buf[i] = "NL" /\ \A j \in 1..(i - 1) : buf[j] # "NL"
    ELSE 0

\* JSON.parse succeeds on the line.
JsonParses(line) ==
    /\ Len(line) >= 2
    /\ line[1] = "{"
    /\ line[Len(line)] = "}"
    /\ \A i \in 2..(Len(line) - 1) : line[i] \in {"t", "n"}

JsonHas(line, key) == \E i \in 2..(Len(line) - 1) : line[i] = key

\* The try block up to createWriteStream does not throw: JSON.parse accepts
\* the line and path.basename gets a string (meta.name is present).
MetaAccepted(line) == JsonParses(line) /\ JsonHas(line, "n")

\* `if (meta.transferId) transferId = meta.transferId`, line 431: k is the
\* closure of the connection, k.wireId the id the metadata carries.
MetaTransferId_Provisional(line, k) == k.transferId

MetaTransferId(line, k) == IF JsonHas(line, "t") THEN k.wireId ELSE k.transferId

\* metaBuffer.slice(0, newlineIndex)
HeaderLine(buf, idx) == SubSeq(buf, 1, idx - 1)

\* metaBuffer.slice(newlineIndex + 1)
RemainingData_OffByOne(buf, idx) == SubSeq(buf, idx + 2, Len(buf))

RemainingData(buf, idx) == SubSeq(buf, idx + 1, Len(buf))

(***************************************************************************)
(* The destination file.  Every accepted header of the model names the     *)
(* same file, so there is one destination path.                            *)
(***************************************************************************)
\* No file at the path and no write stream.
NoFile == [content |-> <<>>, writers |-> {}]

\* fs.existsSync / fs.unlinkSync / fs.createWriteStream(fullPath), lines
\* 434-438, for connection c.  A new, empty file takes the path.  When
\* another write stream is open on the path the outcome depends on the file
\* system and on whether that stream's asynchronous open has completed: the
\* old file is unlinked and the other stream keeps writing to a file that
\* has no name any more, or both streams end up on one file (shared).
Opened(d, c, shared) ==
    [content |-> <<>>, writers |-> IF shared THEN d.writers \cup {c} ELSE {c}]

\* A write of data at offset off into a file: bytes beyond the old end that
\* nobody wrote are a hole.
Overlay(content, off, data) ==
    LET end == off + Len(data)
        len == IF Len(content) > end THEN Len(content) ELSE end
    IN  [i \in 1..len |->
            IF i > off /\ i <= end THEN data[i - off]
            ELSE IF i <= Len(content) THEN content[i]
            ELSE "hole"]

\* The write stream of connection c writes data at its own offset; the
\* bytes reach the path only if the stream's file still has that name.
Written(d, c, off, data) ==
    IF c \in d.writers
    THEN [d EXCEPT !.content = Overlay(@, off, data)]
    ELSE d

(***************************************************************************)
(* Inbound connections.                                                    *)
(***************************************************************************)
FreeConn ==
    [st |-> "free", wire |-> <<>>, payload |-> <<>>, wireId |-> <<"none", 0>>,
     segs |-> {},
     transferId |-> <<"none", 0>>, receiving |-> FALSE, metaBuffer |-> <<>>,
     transferFinished |-> FALSE, lastUpdate |-> 0,
     transferred |-> 0, sockBuf |-> <<>>, file |-> <<>>, fileOpen |-> FALSE,
     parses |-> 0, pipelines |-> 0, unshifts |-> 0,
     paused |-> FALSE, pausedAt |-> 0, resumed |-> FALSE]

\* A stream a peer sends: the bytes on the wire, the payload it means to
\* transfer (the bytes after the first newline), the id its metadata's
\* transferId member carries, and the sizes of the segments in which the
\* bytes can reach the socket (the last segment is what is left).
Stream(meta, payload, id, segs) ==
    [wire |-> meta \o <<"NL">> \o payload, payload |-> payload, wireId |-> id,
     segs |-> segs]

\* net.createServer callback: handleIncomingTransfer(socket), lines 391-414.
\* The listener of startTcpServer (lines 358-365) hands over a connection.
Accept(c, s) ==
    /\ tcpServer
    /\ conns[c].st = "free"
    /\ \A d \in ConnIds : d < c => conns[d].st # "free"
    /\ conns' = [conns EXCEPT ![c] =
                    [FreeConn EXCEPT !.st = "open", !.wire = s.wire,
                                     !.payload = s.payload, !.wireId = s.wireId,
                                     !.segs = s.segs,
                                     !.transferId = ProvisionalId(c),
                                     !.lastUpdate = now]]
    /\ activeTransfers' = MapSet(activeTransfers, ProvisionalId(c), RecvHandle(c))
    /\ events' = Append(events,
                    Event("progress", ProvisionalId(c), "connecting", NoBytes,
                          RecvHandle(c)))
    /\ UNCHANGED <<discVars, disk, now, ticks, cancels, sendVars>>

\* The connections whose write stream is open on the file at the path.
Writers == {d \in disk.writers : conns[d].st = "open"}

\* socket.on('data') before the pipeline is attached, lines 416-497.  A
\* socket that pauseTransfer has paused emits neither 'data' nor 'end'.
OnData(c) ==
    /\ conns[c].st = "open"
    /\ ~conns[c].paused
    /\ ~conns[c].receiving
    /\ conns[c].wire # <<>>
    /\ \E seg \in conns[c].segs :
        LET k == conns[c]
            n == Min(seg, Len(k.wire))
            data == SubSeq(k.wire, 1, n)
            rest == SubSeq(k.wire, n + 1, Len(k.wire))
            buf == k.metaBuffer \o data
            idx == IndexOfNL(buf)
            line == HeaderLine(buf, idx)
            id == MetaTransferId(line, k)
            remaining == RemainingData(buf, idx)
        IN  IF k.transferFinished
            THEN /\ conns' = [conns EXCEPT ![c].wire = rest]
                 /\ UNCHANGED <<events, disk>>
            ELSE IF idx = 0
            THEN /\ conns' = [conns EXCEPT
                        ![c].wire = rest,
                        ![c].metaBuffer = buf,
                        ![c].st = IF Len(buf) > HeaderLimit
                                  THEN "destroyed" ELSE "open"]
                 /\ UNCHANGED <<events, disk>>
            ELSE IF MetaAccepted(line)
            THEN /\ conns' = [conns EXCEPT
                        ![c].wire = rest,
                        ![c].metaBuffer = <<>>,
                        ![c].parses = @ + 1,
                        ![c].transferId = id,
                        ![c].fileOpen = TRUE,
                        ![c].file = <<>>,
                        ![c].receiving = TRUE,
                        ![c].sockBuf = remaining,
                        ![c].unshifts = IF Len(remaining) > 0 THEN @ + 1 ELSE @,
                        ![c].pipelines = @ + 1]
                 /\ events' = Append(events,
                        Event("progress", id, "receiving", 0, RecvHandle(c)))
                 /\ \E shared \in IF Writers = {} THEN {FALSE} ELSE BOOLEAN :
                        disk' = Opened(disk, c, shared)
            ELSE /\ conns' = [conns EXCEPT
                        ![c].wire = rest,
                        ![c].metaBuffer = buf,
                        ![c].parses = @ + 1,
                        ![c].st = "destroyed"]
                 /\ UNCHANGED <<events, disk>>
    /\ UNCHANGED <<discVars, activeTransfers, now, ticks, cancels, sendVars>>

\* One chunk through pipeline(socket, progressTransform, writeStream): the
\* unshifted bytes are read first, then what the peer sends next.
PipeData(c) ==
    /\ conns[c].st = "open"
    /\ ~conns[c].paused
    /\ conns[c].receiving
    /\ conns[c].sockBuf # <<>> \/ conns[c].wire # <<>>
    /\ \E seg \in conns[c].segs :
        LET k == conns[c]
            fromBuf == Len(k.sockBuf) > 0
            n == IF fromBuf THEN 0 ELSE Min(seg, Len(k.wire))
            chunk == IF fromBuf THEN k.sockBuf ELSE SubSeq(k.wire, 1, n)
            rest == IF fromBuf THEN k.wire ELSE SubSeq(k.wire, n + 1, Len(k.wire))
            transferred == ProgressCount(k.transferred, Len(chunk))
            emit == ThrottleOpen(k.lastUpdate)
        IN  /\ conns' = [conns EXCEPT
                    ![c].wire = rest,
                    ![c].sockBuf = <<>>,
                    ![c].transferred = transferred,
                    ![c].file = @ \o chunk,
                    ![c].lastUpdate = IF emit THEN now ELSE @]
            /\ events' = IF emit
                         THEN Append(events,
                                Event("progress", k.transferId, "receiving",
                                      transferred, RecvHandle(c)))
                         ELSE events
            /\ disk' = Written(disk, c, Len(k.file), chunk)
    /\ UNCHANGED <<discVars, activeTransfers, now, ticks, cancels, sendVars>>

\* The peer half-closes after its last byte and the pipeline finishes: the
\* pipeline callback without an error, lines 475-490.
PipeEnd(c) ==
    /\ conns[c].st = "open"
    /\ ~conns[c].paused
    /\ conns[c].receiving
    /\ conns[c].wire = <<>>
    /\ conns[c].sockBuf = <<>>
    /\ LET k == conns[c]
       IN  IF k.transferFinished
           THEN /\ conns' = [conns EXCEPT ![c].st = "closed"]
                /\ UNCHANGED <<activeTransfers, events>>
           ELSE /\ conns' = [conns EXCEPT ![c].st = "closed",
                                          ![c].transferFinished = TRUE]
                /\ activeTransfers' = MapDelete(activeTransfers, k.transferId)
                /\ events' = Append(events,
                        Event("complete", k.transferId, "completed", NoBytes,
                              RecvHandle(c)))
    /\ UNCHANGED <<discVars, disk, now, ticks, cancels, sendVars>>

\* The peer closes before a metadata line was accepted (a sweep probe of
\* checkPeer connects and closes at once).  The listener has no 'end' or
\* 'close' handler: nothing runs.
PeerClose(c) ==
    /\ conns[c].st = "open"
    /\ ~conns[c].receiving
    /\ conns[c].wire = <<>>
    /\ conns' = [conns EXCEPT ![c].st = "closed"]
    /\ UNCHANGED <<discVars, disk, activeTransfers, events, now, ticks, cancels, sendVars>>

\* socket.on('error') of the listener, lines 499-505.  When the pipeline is
\* attached its callback runs after this handler (which was registered
\* first), finds transferFinished set and returns.
SocketError(c) ==
    /\ conns[c].st = "open"
    /\ LET k == conns[c]
       IN  IF k.transferFinished
           THEN /\ conns' = [conns EXCEPT ![c].st = "destroyed"]
                /\ UNCHANGED activeTransfers
           ELSE /\ conns' = [conns EXCEPT ![c].st = "destroyed",
                                          ![c].transferFinished = TRUE]
                /\ activeTransfers' = MapDelete(activeTransfers, k.transferId)
    /\ UNCHANGED <<discVars, disk, events, now, ticks, cancels, sendVars>>

\* The write stream fails (destination not writable, disk full): the
\* pipeline destroys the socket with the error and calls back with it, lines
\* 475-484.  Whether the pipeline callback runs before the 'error' handler
\* of the socket (lines 499-505) or after it depends on the version of the
\* stream library; in the second case the callback finds transferFinished
\* set and emits nothing.
WriteError(c) ==
    /\ conns[c].st = "open"
    /\ conns[c].receiving
    /\ LET k == conns[c]
       IN  IF k.transferFinished
           THEN /\ conns' = [conns EXCEPT ![c].st = "destroyed"]
                /\ UNCHANGED <<activeTransfers, events>>
           ELSE /\ conns' = [conns EXCEPT ![c].st = "destroyed",
                                          ![c].transferFinished = TRUE]
                /\ activeTransfers' = MapDelete(activeTransfers, k.transferId)
                /\ \E callbackFirst \in BOOLEAN :
                     events' = IF callbackFirst
                               THEN Append(events,
                                      Event("error", k.transferId, "failed",
                                            NoBytes, RecvHandle(c)))
                               ELSE events
    /\ UNCHANGED <<discVars, disk, now, ticks, cancels, sendVars>>

\* Time passes.  The clock is read only by sendFile, by
\* handleIncomingTransfer, by their progress callbacks and by the discovery
\* handlers (for lastSeen), so it is let run while a transfer is in flight.
InFlight ==
    \/ \E k \in 1..Len(sends) : sends[k].st # "done"
    \/ \E c \in ConnIds : conns[c].st = "open"

Tick ==
    /\ ticks < MaxTicks
    /\ InFlight
    /\ \E d \in TickSteps : now' = now + d
    /\ ticks' = ticks + 1
    /\ UNCHANGED <<discVars, disk, activeTransfers, events, conns, cancels, sendVars>>

(***************************************************************************)
(* ipcMain.handle('cancel-transfer'), check-env.js lines 361-372.  The     *)
(* handler calls networkManager.cancelTransfer(transferId); the class      *)
(* NetworkManager defines no such method, so the call throws a TypeError,  *)
(* the catch block returns { success: false, error } and neither the       *)
(* registry nor any transfer is touched.  The cancel closures stored in    *)
(* the registry (networkManager.js lines 92-97 and 401-405) have no        *)
(* caller.                                                                 *)
(***************************************************************************)
CancelTransfer(id) ==
    /\ Len(cancels) < MaxCancels
    /\ cancels' = Append(cancels, id)
    /\ UNCHANGED <<discVars, disk, activeTransfers, events, now, ticks, conns, sendVars>>

(***************************************************************************)
(* The sender: ipcMain.handle('transfer-files') of check-env.js and        *)
(* NetworkManager.sendFile.                                                *)
(*                                                                         *)
(* S is the part of the state the handler and sendFile write: the handler  *)
(* invocations, the sendFile closures, the registry and the process lock.  *)
(* The operators below compute the S a callback leaves behind; the         *)
(* continuation of an awaited promise runs before any other callback and   *)
(* is part of the step that settles the promise.                           *)
(***************************************************************************)
SendHandle(k) == [kind |-> "send", n |-> k]

NoId == <<"none", 0>>

Cur ==
    [calls |-> calls, sends |-> sends, reg |-> activeTransfers,
     active |-> batchTransferActive]

Commit(S) ==
    /\ calls' = S.calls
    /\ sends' = S.sends
    /\ activeTransfers' = S.reg
    /\ batchTransferActive' = S.active

\* The data of a 'transfer-files' request: transferId may be absent, a file
\* exists on disk ("ok", FileSize bytes long) or does not ("missing").
Requests ==
    [transferId : {NoId, <<"caller", 1>>},
     files : SeqsUpTo({"ok", "missing"}, MaxFiles)]

\* The closure of a sendFile call that got past fs.existsSync, lines 77-104.
NewSend(c, j, id) ==
    [call |-> c, file |-> j, id |-> id, st |-> "connecting",
     transferFinished |-> FALSE, socket |-> "open", promise |-> "pending",
     lastUpdate |-> now, transferred |-> 0, left |-> FileSize,
     late |-> FALSE, paused |-> FALSE, replaced |-> FALSE,
     metaWrites |-> 0, flushed |-> FALSE]

\* `if (batchTransferActive) return { success: false, ... }`, lines 322-324.
BatchBusy_NoGuard(active) == FALSE

BatchBusy(active) == active

\* A return of the handler, through `finally { batchTransferActive = false }`.
Return_ReleaseOnSuccess(S, c, result) ==
    [S EXCEPT !.calls[c].st = "returned", !.calls[c].result = result,
              !.active = IF result = "ok" THEN FALSE ELSE @]

Return(S, c, result) ==
    [S EXCEPT !.calls[c].st = "returned", !.calls[c].result = result,
              !.active = FALSE]

\* The first file at or after idx that exists; 0 when there is none.  A
\* missing file makes sendFile reject with 'File not found' at once; the
\* loop logs the error and goes on (lines 81-83 and 342-348).
NextOk(files, idx) ==
    IF \E j \in idx..Len(files) : files[j] = "ok"
    THEN CHOOSE j \in idx..Len(files) :
            files[j] = "ok" /\ \A i \in idx..(j - 1) : files[i] # "ok"
    ELSE 0

\* The loop without the await on sendFile: the next existing file is sent
\* at once as well.
StartFrom_NoAwait(S, c, idx) ==
    LET files == S.calls[c].files
        j == NextOk(files, idx)
        id == S.calls[c].id
        S1 == [S EXCEPT !.calls[c].idx = j,
                        !.calls[c].st = "sending",
                        !.sends = Append(@, NewSend(c, j, id)),
                        !.reg = MapSet(@, id, SendHandle(Len(S.sends) + 1))]
        j2 == NextOk(files, j + 1)
    IN  IF j = 0
        THEN Return([S EXCEPT !.calls[c].idx = Len(files) + 1], c, "ok")
        ELSE IF j2 = 0
        THEN S1
        ELSE [S1 EXCEPT !.calls[c].idx = j2,
                        !.sends = Append(@, NewSend(c, j2, id)),
                        !.reg = MapSet(@, id, SendHandle(Len(S1.sends) + 1))]

\* The for loop of the handler from file idx on, up to its next await:
\* sendFile registers the transfer and starts to connect, or the loop ends
\* and the handler returns success (lines 333-350, 75-106).  `replaced`
\* records whether activeTransfers.set (line 90) found the id in the map.
StartFrom(S, c, idx) ==
    LET j == NextOk(S.calls[c].files, idx)
        id == S.calls[c].id
    IN  IF j = 0
        THEN Return([S EXCEPT !.calls[c].idx = Len(S.calls[c].files) + 1],
                    c, "ok")
        ELSE [S EXCEPT !.calls[c].idx = j,
                       !.calls[c].st = "sending",
                       !.sends = Append(@, [NewSend(c, j, id) EXCEPT
                                    !.replaced = id \in DOMAIN S.reg]),
                       !.reg = MapSet(@, id, SendHandle(Len(S.sends) + 1))]

\* err.message.includes('ECONNREFUSED') || err.message.includes('ETIMEDOUT')
Aborts(err) == err \in {"ECONNREFUSED", "ETIMEDOUT"}

\* reject(err) of send k and, if that settles the promise, the catch block
\* of the loop (lines 342-348).
Reject(S, k, err) ==
    IF S.sends[k].promise # "pending"
    THEN S
    ELSE LET S1 == [S EXCEPT !.sends[k].promise = "rejected"]
             c == S.sends[k].call
         IN  IF Aborts(err)
             THEN Return(S1, c, "failed")
             ELSE StartFrom(S1, c, S1.calls[c].idx + 1)

\* resolve({ success: true }) of send k; the loop then waits 100 ms
\* (line 341).
Resolve(S, k) ==
    IF S.sends[k].promise # "pending"
    THEN S
    ELSE [S EXCEPT !.sends[k].promise = "resolved",
                   !.calls[S.sends[k].call].st = "gap"]

\* ipcMain.handle('transfer-files'), lines 319-358, up to its first await.
FilesRequested == LET n[i \in 0..Len(calls)] ==
                          IF i = 0 THEN 0 ELSE n[i - 1] + Len(calls[i].files)
                  IN  n[Len(calls)]

TransferFiles(data) ==
    /\ Len(calls) < MaxCalls
    /\ FilesRequested + Len(data.files) <= MaxFiles
    /\ LET c == Len(calls) + 1
           id == IF data.transferId = NoId THEN <<"send", c>> ELSE data.transferId
           refused(result) ==
               [st |-> "returned", result |-> result, id |-> NoId,
                files |-> <<>>, idx |-> 0]
           accepted ==
               [st |-> "sending", result |-> "none", id |-> id,
                files |-> data.files, idx |-> 0]
       IN  IF BatchBusy(batchTransferActive)
           THEN /\ calls' = Append(calls, refused("busy"))
                /\ UNCHANGED <<sends, activeTransfers, batchTransferActive>>
           ELSE IF Len(data.files) = 0
           THEN /\ calls' = Append(calls, refused("nofiles"))
                /\ UNCHANGED <<sends, activeTransfers, batchTransferActive>>
           ELSE Commit(StartFrom(
                    [Cur EXCEPT !.calls = Append(@, accepted),
                                !.active = TRUE], c, 1))
    /\ UNCHANGED <<discVars, disk, events, now, ticks, conns, cancels>>

\* What the connect callback leaves running: the metadata write alone; the
\* pipeline is created in the callback of that write (lines 111-112).
AfterConnect_Piping == "piping"

AfterConnect == "flushing"

\* The connect callback: socket.write(meta, 'utf8', cb), lines 106-111.
ConnectOk(k) ==
    /\ sends[k].st = "connecting"
    /\ sends[k].socket = "open"
    /\ sends' = [sends EXCEPT ![k].st = AfterConnect,
                              ![k].metaWrites = @ + 1]
    /\ UNCHANGED <<discVars, disk, activeTransfers, events, now, ticks, conns, cancels,
                   batchTransferActive, calls>>

\* The callback of the metadata write: the pipeline starts, lines 111-160.
Flushed(k) ==
    /\ sends[k].st = "flushing"
    /\ sends[k].socket = "open"
    /\ sends' = [sends EXCEPT ![k].st = "piping", ![k].flushed = TRUE]
    /\ UNCHANGED <<discVars, disk, activeTransfers, events, now, ticks, conns, cancels,
                   batchTransferActive, calls>>

\* One chunk of the file through the progress transform, lines 113-134.
\* fs.createReadStream delivers chunks of its highWaterMark, the last one
\* shorter.
SendChunk(k) ==
    /\ sends[k].st = "piping"
    /\ sends[k].socket = "open"
    /\ sends[k].left > 0
    /\ LET x == sends[k]
           n == Min(ReadChunk, x.left)
           transferred == ProgressCount(x.transferred, n)
           emit == ThrottleOpen(x.lastUpdate)
       IN  /\ sends' = [sends EXCEPT
                    ![k].left = @ - n,
                    ![k].transferred = transferred,
                    ![k].lastUpdate = IF emit THEN now ELSE @]
           /\ events' = IF emit
                        THEN Append(events,
                                Event("progress", x.id, "sending", transferred,
                                      SendHandle(k)))
                        ELSE events
    /\ UNCHANGED <<discVars, disk, activeTransfers, now, ticks, conns, cancels,
                   batchTransferActive, calls>>

\* The pipeline callback without an error, lines 140-157.
SendDone(k) ==
    /\ sends[k].st = "piping"
    /\ sends[k].socket = "open"
    /\ sends[k].left = 0
    /\ LET x == sends[k]
           S0 == [Cur EXCEPT !.sends[k].st = "done", !.sends[k].socket = "ended"]
       IN  IF x.transferFinished
           THEN Commit(S0) /\ UNCHANGED events
           ELSE /\ Commit(Resolve(
                        [S0 EXCEPT !.sends[k].transferFinished = TRUE,
                                   !.reg = MapDelete(@, x.id)], k))
                /\ events' = Append(events,
                        Event("complete", x.id, "completed", NoBytes,
                              SendHandle(k)))
    /\ UNCHANGED <<discVars, disk, now, ticks, conns, cancels>>

\* socket.on('error'), lines 163-172: the connection is refused or the host
\* unreachable while connecting, or the peer resets it afterwards.  The
\* socket is destroyed; a pipeline that was attached calls back after this
\* handler and finds transferFinished set.
ConnectErrors == {"ECONNREFUSED", "EHOSTUNREACH"}
StreamErrors == {"ECONNRESET"}

SendSocketError(k, err) ==
    /\ sends[k].st \in {"connecting", "flushing", "piping"}
    /\ sends[k].socket = "open"
    /\ err \in IF sends[k].st = "connecting" THEN ConnectErrors ELSE StreamErrors
    /\ LET x == sends[k]
           S0 == [Cur EXCEPT !.sends[k].st = "done",
                             !.sends[k].socket = "destroyed"]
       IN  IF x.transferFinished
           THEN Commit(S0)
           ELSE Commit(Reject(
                    [S0 EXCEPT !.sends[k].transferFinished = TRUE,
                               !.reg = MapDelete(@, x.id)], k, err))
    /\ UNCHANGED <<discVars, disk, events, now, ticks, conns, cancels>>

\* socket.on('timeout'), lines 100-104: no activity on the socket for 5 s,
\* while connecting or while the peer does not read.  The handler destroys
\* the socket and rejects; it neither sets transferFinished nor deletes the
\* registry entry.  If the metadata write or the pipeline was under way, the
\* pipeline callback follows with a premature-close error (LateCallback).
TimeoutMessage == "Transfer connection timed out"

SendTimeout(k) ==
    /\ sends[k].st \in {"connecting", "flushing", "piping"}
    /\ sends[k].socket = "open"
    /\ Commit(Reject(
            [Cur EXCEPT !.sends[k].socket = "destroyed",
                        !.sends[k].late = (sends[k].st # "connecting"),
                        !.sends[k].st = "done"], k, TimeoutMessage))
    /\ UNCHANGED <<discVars, disk, events, now, ticks, conns, cancels>>

\* The pipeline callback with an error, after the socket was destroyed by
\* the timeout handler, lines 140-147.
LateCallback(k) ==
    /\ sends[k].late
    /\ LET x == sends[k]
           S0 == [Cur EXCEPT !.sends[k].late = FALSE]
       IN  IF x.transferFinished
           THEN Commit(S0)
           ELSE Commit(Reject(
                    [S0 EXCEPT !.sends[k].transferFinished = TRUE,
                               !.reg = MapDelete(@, x.id)], k,
                    "ERR_STREAM_PREMATURE_CLOSE"))
    /\ UNCHANGED <<discVars, disk, events, now, ticks, conns, cancels>>

\* The read stream of the file fails: the pipeline destroys the socket and
\* the send ends with the error, lines 140-147 and 163-168.
SendReadError(k) ==
    /\ sends[k].st = "piping"
    /\ sends[k].socket = "open"
    /\ LET x == sends[k]
           S0 == [Cur EXCEPT !.sends[k].st = "done",
                             !.sends[k].socket = "destroyed"]
       IN  IF x.transferFinished
           THEN Commit(S0)
           ELSE Commit(Reject(
                    [S0 EXCEPT !.sends[k].transferFinished = TRUE,
                               !.reg = MapDelete(@, x.id)], k, "EIO"))
    /\ UNCHANGED <<discVars, disk, events, now, ticks, conns, cancels>>

\* `await new Promise(r => setTimeout(r, 100))` is over: the loop goes on
\* with the next file, lines 341 and 333.
GapElapsed(c) ==
    /\ calls[c].st = "gap"
    /\ Commit(StartFrom(Cur, c, calls[c].idx + 1))
    /\ UNCHANGED <<discVars, disk, events, now, ticks, conns, cancels>>

Init ==
    /\ activeTransfers = EmptyMap
    /\ events = <<>>
    /\ now = 0
    /\ ticks = 0
    /\ conns = [c \in ConnIds |-> FreeConn]
    /\ cancels = <<>>
    /\ batchTransferActive = FALSE
    /\ calls = <<>>
    /\ sends = <<>>
    /\ peers = EmptyMap
    /\ isScanning = FALSE
    /\ session = 0
    /\ discEvents = <<>>
    /\ rx = NoDatagram
    /\ scanTimers = 0
    /\ probes = {}
    /\ tcpServer = FALSE
    /\ udp = "none"
    /\ udpLeaks = 0
    /\ timerLeaks = 0
    /\ broadcasting = FALSE
    /\ sweeps = <<>>
    /\ scan = NoScan
    /\ disk = NoFile

\* The state after the first 'discover-peer' request (startDiscovery, lines
\* 189-232): the listener runs, the UDP socket is being bound and the
\* fallback timer is armed.  Inbound connections exist from here on.
Serving ==
    /\ activeTransfers = EmptyMap
    /\ events = <<>>
    /\ now = 0
    /\ ticks = 0
    /\ conns = [c \in ConnIds |-> FreeConn]
    /\ cancels = <<>>
    /\ batchTransferActive = FALSE
    /\ calls = <<>>
    /\ sends = <<>>
    /\ peers = EmptyMap
    /\ isScanning = TRUE
    /\ session = 1
    /\ discEvents = <<>>
    /\ rx = NoDatagram
    /\ scanTimers = 1
    /\ probes = {}
    /\ tcpServer = TRUE
    /\ udp = "binding"
    /\ udpLeaks = 0
    /\ timerLeaks = 0
    /\ broadcasting = FALSE
    /\ sweeps = <<>>
    /\ scan = NoScan
    /\ disk = NoFile

(***************************************************************************)
(* SpecFraming: one inbound connection whose stream is a metadata line, a  *)
(* newline and an arbitrary payload, delivered in arbitrary chunks.        *)
(***************************************************************************)
HeaderLines ==
    { <<"{", "n", "}">>, <<"{", "t", "n", "}">>, <<"{", "}">>, <<"x">> }

\* A peer that closes before it has sent the newline.
Truncated(bytes, segs) ==
    [wire |-> bytes, payload |-> <<>>, wireId |-> <<"none", 0>>, segs |-> segs]

FramingStreams ==
    { Stream(m, p, <<"caller", 1>>, 1..MaxChunk) :
        m \in HeaderLines, p \in SeqsUpTo(Byte \ {"t"}, MaxPayload) }
    \cup { Truncated(m, 1..MaxChunk) : m \in HeaderLines }

NextFraming ==
    \/ \E s \in FramingStreams : Accept(1, s)
    \/ OnData(1)
    \/ PipeData(1)
    \/ PipeEnd(1)
    \/ PeerClose(1)

SpecFraming == Serving /\ [][NextFraming]_vars

\* C1: Framing boundary.  Whatever the metadata line, the payload bytes and
\* the segmentation of the stream into chunks, the file written for a
\* connection holds exactly the bytes that follow the first newline: while the
\* transfer runs the file plus the bytes still to come equal the payload, and
\* at the end the file equals the payload; the metadata is parsed at most once
\* and at most one file pipeline is attached per connection.
FramingBoundary ==
    \A c \in ConnIds :
        LET k == conns[c]
        IN  /\ k.parses <= 1
            /\ k.pipelines <= 1
            /\ k.fileOpen => /\ k.parses = 1
                             /\ k.pipelines = 1
                             /\ k.file \o k.sockBuf \o k.wire = k.payload
            /\ (k.st = "closed" /\ k.fileOpen) => k.file = k.payload

\* A transfer has ended whose payload holds a newline and begins like a second
\* header, and whose first payload bytes arrived in the chunk of the header.
FramingBoundaryWitness ==
    \E c \in ConnIds :
        LET k == conns[c]
        IN  /\ k.st = "closed"
            /\ k.fileOpen
            /\ k.unshifts = 1
            /\ Len(k.payload) = MaxPayload
            /\ k.payload[1] = "{"
            /\ \E i \in 1..Len(k.payload) : k.payload[i] = "NL"
            /\ k.file = k.payload

(***************************************************************************)
(* SpecRecv: the transfer listener.  Peers open connections and send a     *)
(* well-formed transfer, a malformed or oversized header, or nothing at    *)
(* all; sockets and the write stream can fail; the front end sends         *)
(* 'cancel-transfer' requests.                                             *)
(***************************************************************************)
RecvSegs == {MaxChunk}

RecvStreams ==
    { Stream(<<"{", "t", "n", "}">>, <<"x", "x">>, <<"caller", 1>>, RecvSegs),
      Stream(<<"{", "n", "}">>, <<"x">>, <<"caller", 1>>, RecvSegs),
      Stream(<<"x">>, <<>>, <<"caller", 1>>, RecvSegs),
      Stream(<<"{", "}">>, <<>>, <<"caller", 1>>, RecvSegs),
      Truncated(<<>>, RecvSegs),
      Truncated([i \in 1..(HeaderLimit + 1) |-> "x"], RecvSegs) }

RecvIds == CallerIds \cup {ProvisionalId(c) : c \in ConnIds}

NextRecv ==
    \/ \E c \in ConnIds, s \in RecvStreams : Accept(c, s)
    \/ \E c \in ConnIds : OnData(c)
    \/ \E c \in ConnIds : PipeData(c)
    \/ \E c \in ConnIds : PipeEnd(c)
    \/ \E c \in ConnIds : PeerClose(c)
    \/ \E c \in ConnIds : SocketError(c)
    \/ \E c \in ConnIds : WriteError(c)
    \/ \E id \in RecvIds : CancelTransfer(id)
    \/ Tick

SpecRecv == Serving /\ [][NextRecv]_vars

\* Nothing is in flight: no connection is open, no send is under way and no
\* callback of a send is pending.
Quiescent == ~InFlight /\ \A k \in 1..Len(sends) : ~sends[k].late

TerminalEvents(id) ==
    {i \in DOMAIN events :
        events[i].id = id /\ events[i].type \in {"complete", "error"}}

\* C4 as claimed: every id under which a transfer-progress event was emitted
\* ends in exactly one of transfer-complete and transfer-error, with no
\* progress event after it.  Stated of the runs that have come to rest.
EveryTransferTerminates ==
    Quiescent =>
        \A i \in DOMAIN events :
            events[i].type = "progress" =>
                /\ Cardinality(TerminalEvents(events[i].id)) = 1
                /\ \A j \in TerminalEvents(events[i].id) : i < j

\* C6 as claimed: while an inbound transfer is connecting or receiving the
\* registry holds an entry under the id its events carry, and once the
\* connection has reached a terminal outcome the registry holds no entry for
\* it, neither under the provisional id nor under the id of the metadata.
ReceiveRegistryInvariant ==
    \A c \in ConnIds :
        /\ (conns[c].st = "open" /\ ~conns[c].transferFinished)
                => MapHas(activeTransfers, conns[c].transferId)
        /\ conns[c].st \in {"closed", "destroyed"}
                => /\ ~MapHas(activeTransfers, ProvisionalId(c))
                   /\ ~MapHas(activeTransfers, conns[c].transferId)

\* C10 as claimed: every inbound connection that was destroyed by a socket
\* error, a metadata parse failure or a write-stream error has emitted a
\* transfer-error event carrying its transfer id.
ReceiveFailureReported ==
    \A c \in ConnIds :
        conns[c].st = "destroyed"
            => \E i \in DOMAIN events :
                    /\ events[i].type = "error"
                    /\ events[i].src = RecvHandle(c)
                    /\ events[i].id = conns[c].transferId

(***************************************************************************)
(* Spec: the sender.  The front end sends 'transfer-files' and             *)
(* 'cancel-transfer' requests; the peer accepts or refuses connections,    *)
(* reads, stalls or resets them.                                           *)
(***************************************************************************)
SendIds == {<<"caller", 1>>} \cup {<<"send", c>> : c \in 1..MaxCalls}

SendNos == 1..Len(sends)

Next ==
    \/ \E data \in Requests : TransferFiles(data)
    \/ \E k \in SendNos : ConnectOk(k)
    \/ \E k \in SendNos : Flushed(k)
    \/ \E k \in SendNos : SendChunk(k)
    \/ \E k \in SendNos : SendDone(k)
    \/ \E k \in SendNos, err \in ConnectErrors \cup StreamErrors :
            SendSocketError(k, err)
    \/ \E k \in SendNos : SendTimeout(k)
    \/ \E k \in SendNos : LateCallback(k)
    \/ \E k \in SendNos : SendReadError(k)
    \/ \E c \in 1..Len(calls) : GapElapsed(c)
    \/ \E id \in SendIds : CancelTransfer(id)
    \/ Tick

Spec == Init /\ [][Next]_vars

\* C7 as claimed: once the promise of a send has settled, by any path, the
\* registry no longer holds the entry the send registered.
SendSlotReleased ==
    \A k \in SendNos :
        sends[k].promise # "pending"
            => ~(/\ MapHas(activeTransfers, sends[k].id)
                 /\ activeTransfers[sends[k].id] = SendHandle(k))

\* C8 as claimed: after a 'cancel-transfer' request for a registered id the
\* registry contains no entry for the id.
CancelRemovesEntry ==
    [][\A id \in SendIds :
        (/\ Len(cancels') = Len(cancels) + 1
         /\ cancels'[Len(cancels')] = id
         /\ MapHas(activeTransfers, id))
            => ~MapHas(activeTransfers', id)]_vars

\* C9 as claimed: a 'cancel-transfer' request for a send in flight destroys
\* its socket and makes its promise reject.
CancelStopsSend ==
    [][\A k \in SendNos :
        (/\ Len(cancels') = Len(cancels) + 1
         /\ cancels'[Len(cancels')] = sends[k].id
         /\ MapHas(activeTransfers, sends[k].id)
         /\ activeTransfers[sends[k].id] = SendHandle(k)
         /\ sends[k].socket = "open")
            => /\ sends'[k].socket = "destroyed"
               /\ sends'[k].promise = "rejected"]_vars

(***************************************************************************)
(* SpecBatch: the batch lock.  The requests and every way a send can end,  *)
(* without the clock and without 'cancel-transfer' requests.               *)
(***************************************************************************)
SendStep(k) ==
    \/ ConnectOk(k)
    \/ Flushed(k)
    \/ SendChunk(k)
    \/ SendDone(k)
    \/ \E err \in ConnectErrors \cup StreamErrors : SendSocketError(k, err)
    \/ SendTimeout(k)
    \/ SendReadError(k)

NextBatch ==
    \/ \E data \in Requests : TransferFiles(data)
    \/ \E k \in SendNos : ConnectOk(k)
    \/ \E k \in SendNos : Flushed(k)
    \/ \E k \in SendNos : SendChunk(k)
    \/ \E k \in SendNos : SendDone(k)
    \/ \E k \in SendNos, err \in ConnectErrors \cup StreamErrors :
            SendSocketError(k, err)
    \/ \E k \in SendNos : SendTimeout(k)
    \/ \E k \in SendNos : SendReadError(k)
    \/ \E k \in SendNos : LateCallback(k)
    \/ \E c \in 1..Len(calls) : GapElapsed(c)

SpecBatch == Init /\ [][NextBatch]_vars

\* A socket that is connecting or streaming connects, moves data, fails or
\* hits the 5 s idle timeout of socket.setTimeout(5000); the 100 ms timer of
\* the loop fires; a pending pipeline callback runs.
FairBatch ==
    /\ SpecBatch
    /\ WF_vars(\E k \in SendNos : SendStep(k))
    /\ WF_vars(\E k \in SendNos : LateCallback(k))
    /\ WF_vars(\E c \in 1..Len(calls) : GapElapsed(c))

ActiveBatches == {c \in 1..Len(calls) : calls[c].st \in {"sending", "gap"}}

\* C2: Batch exclusivity.  At most one batch is active at any instant, and a
\* 'transfer-files' request that arrives while a batch is active returns the
\* error result at once, starts no sender and leaves the registry unchanged.
BatchExclusivity ==
    /\ [](Cardinality(ActiveBatches) <= 1)
    /\ [][(Len(calls') = Len(calls) + 1 /\ ActiveBatches # {})
            => /\ calls'[Len(calls')].st = "returned"
               /\ calls'[Len(calls')].result = "busy"
               /\ sends' = sends
               /\ activeTransfers' = activeTransfers]_vars

\* A request was refused while the sender of the active batch was streaming.
BatchExclusivityWitness ==
    /\ \E c \in 1..Len(calls) : calls[c].result = "busy"
    /\ \E c \in ActiveBatches :
            \E k \in SendNos : sends[k].call = c /\ sends[k].st = "piping"

\* C3: Guaranteed release of the batch lock.  Whenever an accepted batch
\* returns, by whatever path, the flag is cleared in the same step; the flag
\* is set exactly while a batch is active, so a request made after the batch
\* has ended is accepted; and a flag that is set is eventually cleared, that
\* is, every accepted batch eventually ends.
GuaranteedRelease ==
    /\ [][\A c \in 1..Len(calls) :
            (c \in ActiveBatches /\ calls'[c].st = "returned")
                => ~batchTransferActive']_vars
    /\ [](batchTransferActive <=> ActiveBatches # {})
    /\ batchTransferActive ~> ~batchTransferActive

\* A batch was aborted by a refused connection and a later request was
\* accepted.
GuaranteedReleaseWitness ==
    \E c \in 1..Len(calls) : \E d \in 1..Len(calls) :
        /\ c < d
        /\ calls[c].result = "failed"
        /\ calls[d].result \in {"none", "ok"}
        /\ calls[d].files # <<>>

(***************************************************************************)
(* SpecProgress: the progress events of sends that meet no failure.        *)
(***************************************************************************)
NextProgress ==
    \/ \E data \in Requests : TransferFiles(data)
    \/ \E k \in SendNos : ConnectOk(k)
    \/ \E k \in SendNos : Flushed(k)
    \/ \E k \in SendNos : SendChunk(k)
    \/ \E k \in SendNos : SendDone(k)
    \/ \E c \in 1..Len(calls) : GapElapsed(c)
    \/ Tick

SpecProgress == Init /\ [][NextProgress]_vars

CountedProgress(i) == events[i].type = "progress" /\ events[i].bytes # NoBytes

SendOutcomeReported ==
    \A k \in SendNos :
        /\ sends[k].promise = "resolved"
            => \E i \in DOMAIN events :
                    /\ events[i].type = "complete"
                    /\ events[i].src = SendHandle(k)
        /\ sends[k].promise = "rejected"
            => \E i \in DOMAIN events :
                    /\ events[i].type = "error"
                    /\ events[i].id = sends[k].id

\* C15 as claimed: a 'transfer-files' request that names a file which does not
\* exist returns a failure result.
MissingFileFailsBatch ==
    \A c \in 1..Len(calls) :
        (/\ calls[c].st = "returned"
         /\ \E j \in 1..Len(calls[c].files) : calls[c].files[j] = "missing")
            => calls[c].result # "ok"

(***************************************************************************)
(* SpecInbound: inbound connections with valid metadata.  The peer sends   *)
(* the whole payload its metadata declares or half-closes early; a sweep   *)
(* probe connects and closes.  The clock runs, so throttled progress       *)
(* events are emitted.                                                     *)
(***************************************************************************)
\* The peer declares payload ('size' is its length) and half-closes after
\* the first `sent` bytes of it.
ShortStream(meta, payload, sent, id, segs) ==
    [wire |-> meta \o <<"NL">> \o SubSeq(payload, 1, sent), payload |-> payload,
     wireId |-> id, segs |-> segs]

InboundPayload == [i \in 1..MaxPayload |-> "x"]

InboundStreams ==
    { ShortStream(<<"{", "t", "n", "}">>, InboundPayload, MaxPayload,
                  <<"caller", 1>>, {MaxChunk - 1}),
      ShortStream(<<"{", "t", "n", "}">>, InboundPayload, 1, <<"caller", 1>>,
                  {MaxChunk}),
      ShortStream(<<"{", "n", "}">>, InboundPayload, MaxPayload, NoId,
                  {MaxChunk}),
      Truncated(<<>>, {MaxChunk}) }

NextInbound ==
    \/ \E c \in ConnIds, s \in InboundStreams : Accept(c, s)
    \/ \E c \in ConnIds : OnData(c)
    \/ \E c \in ConnIds : PipeData(c)
    \/ \E c \in ConnIds : PipeEnd(c)
    \/ \E c \in ConnIds : PeerClose(c)
    \/ Tick

SpecInbound == Serving /\ [][NextInbound]_vars

\* The events connection c has emitted, in order.
EventsOf(c) == SelectSeq(events, LAMBDA e : e.src = RecvHandle(c))

\* C12 as claimed: when the stream of an inbound transfer ends before the
\* bytes its metadata declared have arrived, the receiver has emitted
\* transfer-error and no transfer-complete for the transfer.
SizeMismatchIsError ==
    \A c \in ConnIds :
        (/\ conns[c].st = "closed"
         /\ conns[c].fileOpen
         /\ Len(conns[c].file) < Len(conns[c].payload))
            => /\ \E i \in DOMAIN EventsOf(c) : EventsOf(c)[i].type = "error"
               /\ \A i \in DOMAIN EventsOf(c) : EventsOf(c)[i].type # "complete"

\* The id the events of connection c must carry from the metadata parse on.
ExpectedId(c) ==
    IF conns[c].wireId = NoId THEN ProvisionalId(c) ELSE conns[c].wireId

\* C13: Receiver event order.  The events of an accepted connection are, in
\* this order: one 'connecting' progress event under the provisional id; once
\* the metadata is parsed one 'receiving' event with 0 bytes; then only
\* 'receiving' progress events; and, when the peer has closed cleanly after
\* valid metadata, exactly one transfer-complete, which is the last event.
\* Every event after the first carries the transferId of the metadata when
\* the metadata supplies one and the provisional id otherwise.
ReceiverEventOrder ==
    \A c \in ConnIds :
        LET E == EventsOf(c)
            k == conns[c]
            n == Len(E)
            completes == {i \in 1..n : E[i].type = "complete"}
        IN  /\ k.st = "free" => n = 0
            /\ k.st # "free" =>
                /\ n >= 1
                /\ E[1].type = "progress" /\ E[1].status = "connecting"
                /\ E[1].id = ProvisionalId(c)
                /\ \A i \in 2..n : E[i].status # "connecting"
                /\ \A i \in 2..n : E[i].id = ExpectedId(c)
                /\ k.fileOpen <=> n >= 2
                /\ n >= 2 => /\ E[2].type = "progress"
                             /\ E[2].status = "receiving"
                             /\ E[2].bytes = 0
                /\ \A i \in 2..n : i \notin completes =>
                        E[i].type = "progress" /\ E[i].status = "receiving"
                /\ completes \subseteq {n}
                /\ (k.st = "closed" /\ k.fileOpen) <=> completes = {n}

\* A transfer whose metadata supplied a transferId has completed after a
\* throttled 'receiving' event.
ReceiverEventOrderWitness ==
    \E c \in ConnIds :
        LET E == EventsOf(c)
        IN  /\ conns[c].st = "closed"
            /\ conns[c].wireId = <<"caller", 1>>
            /\ Len(E) >= 4
            /\ E[3].bytes > 0
            /\ E[Len(E)].type = "complete"
            /\ E[Len(E)].id = <<"caller", 1>>

(***************************************************************************)
(* SpecMulti: a send to several peers.  handleTransferStart of App.js      *)
(* invokes 'transfer-files' once per target peer, one invocation right     *)
(* after the other, each with the files of the request and with an id that *)
(* ends in the address of the peer (lines 310-317).  The invocations are   *)
(* handled in that order; callbacks of a send that is under way may run in *)
(* between.  Every peer accepts and reads.                                 *)
(***************************************************************************)
TargetPeers == 1..MaxCalls

MultiFiles == <<"ok">>

\* bridge.transferFiles({ ...transferData, peerIP, transferId })
PeerRequest(p) == [transferId |-> <<"caller", p>>, files |-> MultiFiles]

TransferToPeer(p) ==
    /\ Len(calls) = p - 1
    /\ TransferFiles(PeerRequest(p))

NextMulti ==
    \/ \E p \in TargetPeers : TransferToPeer(p)
    \/ \E k \in SendNos : ConnectOk(k)
    \/ \E k \in SendNos : Flushed(k)
    \/ \E k \in SendNos : SendChunk(k)
    \/ \E k \in SendNos : SendDone(k)
    \/ \E c \in 1..Len(calls) : GapElapsed(c)
    \/ Tick

SpecMulti == Init /\ [][NextMulti]_vars

\* C14 as claimed: every selected peer is sent every file of the request:
\* once the invocation for a peer has returned, a sender was started for
\* each file under the id of that peer.
EveryPeerIsSent ==
    \A p \in 1..Len(calls) :
        calls[p].st = "returned"
            => \A j \in DOMAIN MultiFiles :
                    \E k \in SendNos :
                        sends[k].id = PeerRequest(p).transferId /\ sends[k].file = j

(***************************************************************************)
(* Pause and resume: ipcMain.handle('pause-transfer') and                  *)
(* ipcMain.handle('resume-transfer') of check-env.js call                  *)
(* NetworkManager.pauseTransfer and resumeTransfer (lines 367-389), which  *)
(* call socket.pause() and socket.resume() on the socket of the registry   *)
(* entry.  socket.pause() stops the 'data' and 'end' events of the         *)
(* readable side of the socket; it does not touch writes, so the pipeline  *)
(* of a send, which writes into the socket, is not affected.  An id the    *)
(* registry does not hold makes the call return false.                     *)
(***************************************************************************)
PauseTransfer(id) ==
    /\ IF ~MapHas(activeTransfers, id)
       THEN UNCHANGED <<conns, sends>>
       ELSE LET h == activeTransfers[id]
            IN  IF h.kind = "send"
                THEN /\ sends' = [sends EXCEPT ![h.n].paused = TRUE]
                     /\ UNCHANGED conns
                ELSE /\ conns' = [conns EXCEPT
                            ![h.n].pausedAt = IF conns[h.n].paused THEN @ ELSE now,
                            ![h.n].paused = TRUE]
                     /\ UNCHANGED sends
    /\ UNCHANGED <<discVars, disk, activeTransfers, events, now, ticks, cancels,
                   batchTransferActive, calls>>

ResumeTransfer(id) ==
    /\ IF ~MapHas(activeTransfers, id)
       THEN UNCHANGED <<conns, sends>>
       ELSE LET h == activeTransfers[id]
            IN  IF h.kind = "send"
                THEN /\ sends' = [sends EXCEPT ![h.n].paused = FALSE]
                     /\ UNCHANGED conns
                ELSE /\ conns' = [conns EXCEPT
                            ![h.n].resumed = @ \/ conns[h.n].paused,
                            ![h.n].paused = FALSE]
                     /\ UNCHANGED sends
    /\ UNCHANGED <<discVars, disk, activeTransfers, events, now, ticks, cancels,
                   batchTransferActive, calls>>

\* The idle timeout of the sockets of sendFile passes (socket.setTimeout(5000),
\* line 100).
IdleTick ==
    /\ ticks < MaxTicks
    /\ InFlight
    /\ now' = now + IdleTimeoutMs
    /\ ticks' = ticks + 1
    /\ UNCHANGED <<discVars, disk, activeTransfers, events, conns, cancels, sendVars>>

\* The peer of a paused inbound connection is a sendFile of this program:
\* when the listener has not read for IdleTimeoutMs the peer's writes have
\* stalled for that long, its 'timeout' handler destroys its socket (lines
\* 100-104), and the bytes it had not yet written never arrive.
PeerIdleTimeout(c) ==
    /\ conns[c].st = "open"
    /\ conns[c].paused
    /\ now - conns[c].pausedAt >= IdleTimeoutMs
    /\ conns[c].wire # <<>>
    /\ \E n \in 0..(Len(conns[c].wire) - 1) :
            conns' = [conns EXCEPT ![c].wire = SubSeq(@, 1, n)]
    /\ UNCHANGED <<discVars, disk, activeTransfers, events, now, ticks, cancels, sendVars>>

(***************************************************************************)
(* SpecPauseSend: sends that meet no failure, with pause and resume        *)
(* requests from the front end.                                            *)
(***************************************************************************)
NextPauseSend ==
    \/ \E data \in Requests : TransferFiles(data)
    \/ \E k \in SendNos : ConnectOk(k)
    \/ \E k \in SendNos : Flushed(k)
    \/ \E k \in SendNos : SendChunk(k)
    \/ \E k \in SendNos : SendDone(k)
    \/ \E c \in 1..Len(calls) : GapElapsed(c)
    \/ \E id \in SendIds : PauseTransfer(id)
    \/ \E id \in SendIds : ResumeTransfer(id)
    \/ Tick

SpecPauseSend == Init /\ [][NextPauseSend]_vars

\* C16 as claimed: while a transfer is paused (pauseTransfer has succeeded
\* and resumeTransfer was not called since) no step moves payload bytes of
\* the transfer and none emits an event for it.
PauseStopsTransfer ==
    [][/\ \A k \in SendNos :
            (sends[k].paused /\ sends'[k].paused)
                => /\ sends'[k].transferred = sends[k].transferred
                   /\ Len(events') > Len(events)
                        => events'[Len(events')].src # SendHandle(k)
       /\ \A c \in ConnIds :
            (conns[c].paused /\ conns'[c].paused)
                => /\ conns'[c].file = conns[c].file
                   /\ Len(events') > Len(events)
                        => events'[Len(events')].src # RecvHandle(c)]_vars

(***************************************************************************)
(* SpecPauseRecv: inbound transfers from peers that send the whole payload *)
(* their metadata declares, with pause and resume requests from the front  *)
(* end.                                                                    *)
(***************************************************************************)
PauseStreams ==
    { ShortStream(<<"{", "t", "n", "}">>, InboundPayload, MaxPayload,
                  <<"caller", 1>>, {MaxChunk - 1}),
      ShortStream(<<"{", "n", "}">>, InboundPayload, MaxPayload, NoId,
                  {MaxChunk}) }

NextPauseRecv ==
    \/ \E c \in ConnIds, s \in PauseStreams : Accept(c, s)
    \/ \E c \in ConnIds : OnData(c)
    \/ \E c \in ConnIds : PipeData(c)
    \/ \E c \in ConnIds : PipeEnd(c)
    \/ \E c \in ConnIds : PeerClose(c)
    \/ \E c \in ConnIds : PeerIdleTimeout(c)
    \/ \E id \in RecvIds : PauseTransfer(id)
    \/ \E id \in RecvIds : ResumeTransfer(id)
    \/ Tick
    \/ IdleTick

SpecPauseRecv == Serving /\ [][NextPauseRecv]_vars

\* C17 as claimed: a transfer that was paused and resumed loses no byte: when
\* it has completed the received file equals the source, however long the
\* pause lasted.
ResumeCompletesIntact ==
    \A c \in ConnIds :
        (conns[c].resumed /\ conns[c].st = "closed" /\ conns[c].fileOpen)
            => conns[c].file = conns[c].payload

(***************************************************************************)
(* Discovery: startDiscovery, the fallback subnet scan (scanSubnet),       *)
(* checkPeer, handleDiscoveryMessage, startTcpServer and stop of           *)
(* NetworkManager, with the 'discover-peer' and 'test-connection' handlers *)
(* and the 'window-all-closed' handler of check-env.js that call them.     *)
(*                                                                         *)
(* discEvents holds the peer events sent to the renderer; the status of a  *)
(* sweep is the last 'discovery-status' notice its scanSubnet call sent.   *)
(* The fallback timer fires at some time after it was armed.  A batch of   *)
(* scanSubnet holds 15 addresses in the source and BatchSize here.         *)
(***************************************************************************)
LocalIPs == {"10.0.0.1"}
\* Addresses at which a peer runs, and addresses of the subnet without a
\* host.
RemoteIPs == {"10.0.0.2"}
VacantIPs == {"10.0.0.3", "10.0.0.4"}
Addrs == LocalIPs \cup RemoteIPs

\* The targets of scanSubnet, lines 239-262: the addresses of the subnet
\* that are not local, in ascending order.
SweepTargets == <<"10.0.0.2", "10.0.0.3", "10.0.0.4">>

\* What a datagram holds: a presence frame, JSON of another type, or bytes
\* JSON.parse rejects.
Datagrams == {"discovery", "other", "garbage"}

nonDiscVars == <<activeTransfers, events, now, ticks, conns, cancels, sendVars,
                 disk>>

PeerEvent(type, ip) == [type |-> type, ip |-> ip, session |-> session]

\* A checkPeer socket: sweep is the scanSubnet call that awaits it, 0 when
\* 'test-connection' made it.
Probe(ip, w) == [ip |-> ip, sweep |-> w]

\* localIPs.includes(rinfo.address), lines 340-341.
IsLocal_Never(addr) == FALSE

IsLocal(addr) == addr \in LocalIPs

\* this.peers.has(ip), lines 282 and 346.
PeerKnown_Never(ps, ip) == FALSE

PeerKnown(ps, ip) == MapHas(ps, ip)

\* this.peers.clear(), line 192.
PeersAfterStart_Kept(ps) == ps

PeersAfterStart(ps) == EmptyMap

\* `if (this.peers.size > 0) break`, line 266.
SweepBreaks_Never(ps) == FALSE

SweepBreaks(ps) == DOMAIN ps # {}

\* `await Promise.all(batch.map(...))`, line 268: a probe of sweep w is
\* still unresolved.
BatchPending_Never(pr, w) == FALSE

BatchPending(pr, w) == \E q \in pr : q.sweep = w

\* targets.slice(i, i + batchSize), line 267.
Batch_Whole(todo) == todo

Batch(todo) == SubSeq(todo, 1, Min(BatchSize, Len(todo)))

\* The loop of scanSubnet (lines 265-273) of sweep w from its next batch on,
\* up to its next await; D holds the sweeps and the probes, ps is the peer
\* table.
SweepFrom(D, w, ps) ==
    LET todo == D.sweeps[w].todo
        b == Batch(todo)
    IN  IF todo = <<>> \/ SweepBreaks(ps)
        THEN [D EXCEPT !.sweeps[w].st = "idle"]
        ELSE [D EXCEPT !.sweeps[w].todo = SubSeq(todo, Len(b) + 1, Len(todo)),
                       !.probes = @ \cup {Probe(b[i], w) : i \in DOMAIN b}]

\* Probe p has resolved: when it was the last unresolved probe of the batch
\* of its sweep, the sweep goes on.
Resolved(p, ps) ==
    LET D == [sweeps |-> sweeps, probes |-> probes \ {p}]
    IN  IF p.sweep = 0 \/ BatchPending(D.probes, p.sweep)
        THEN D
        ELSE SweepFrom(D, p.sweep, ps)

CommitSweep(D) ==
    /\ sweeps' = D.sweeps
    /\ probes' = D.probes

\* startDiscovery, lines 189-232, called by ipcMain.handle('discover-peer').
\* startTcpServer (lines 358-365) starts the listener unless there is one.
\* rx keeps the last datagram handled since the last start.
StartDiscovery ==
    /\ session < MaxStarts
    /\ session' = session + 1
    /\ peers' = PeersAfterStart(peers)
    /\ tcpServer' = TRUE
    /\ rx' = NoDatagram
    /\ IF isScanning
       THEN UNCHANGED <<isScanning, scanTimers, udp, udpLeaks>>
       ELSE /\ isScanning' = TRUE
            /\ scanTimers' = scanTimers + 1
            /\ udp' = "binding"
            /\ udpLeaks' = IF udp = "bound" THEN udpLeaks + 1 ELSE udpLeaks
    /\ UNCHANGED <<discEvents, probes, timerLeaks, broadcasting, sweeps,
                   scan, nonDiscVars>>

\* The callback of udpSocket.bind, lines 213-218: startBroadcasting (lines
\* 297-336) starts the 1 s interval and stores its handle in
\* this.broadcastTimer (line 334), whatever that field referred to.
UdpBound ==
    /\ udp = "binding"
    /\ udp' = "bound"
    /\ broadcasting' = TRUE
    /\ timerLeaks' = IF broadcasting THEN timerLeaks + 1 ELSE timerLeaks
    /\ UNCHANGED <<peers, isScanning, session, discEvents, rx, scanTimers,
                   probes, tcpServer, udpLeaks, sweeps,
                   scan, nonDiscVars>>

\* udpSocket.on('error'), lines 208-211: the bind fails, or a send of the
\* broadcaster fails on the bound socket, which stays open.
UdpError ==
    /\ isScanning
    /\ udp \in {"binding", "bound"}
    /\ isScanning' = FALSE
    /\ udp' = IF udp = "binding" THEN "unbound" ELSE udp
    /\ UNCHANGED <<peers, session, discEvents, rx, scanTimers, probes,
                   tcpServer, udpLeaks, timerLeaks, broadcasting, sweeps,
                   scan, nonDiscVars>>

\* stop, lines 508-518, called by app.on('window-all-closed').
Stop ==
    /\ broadcasting' = FALSE
    /\ udp' = "none"
    /\ tcpServer' = FALSE
    /\ UNCHANGED <<peers, isScanning, session, discEvents, rx, scanTimers,
                   probes, udpLeaks, timerLeaks, sweeps, scan, nonDiscVars>>

\* The fallback timer of startDiscovery fires (lines 227-231): with an empty
\* table scanSubnet (lines 234-274) sends 'advanced-scanning' and starts its
\* first batch of probes.
FallbackTimer ==
    /\ scanTimers > 0
    /\ scanTimers' = scanTimers - 1
    /\ IF DOMAIN peers = {}
       THEN LET w == Len(sweeps) + 1
                D == [sweeps |-> Append(sweeps,
                                    [todo |-> SweepTargets,
                                     st |-> "advanced-scanning",
                                     since |-> session]),
                      probes |-> probes]
            IN  CommitSweep(SweepFrom(D, w, peers))
       ELSE UNCHANGED <<sweeps, probes>>
    /\ UNCHANGED <<peers, isScanning, session, discEvents, rx, tcpServer, udp,
                   udpLeaks, timerLeaks, broadcasting, scan, nonDiscVars>>

\* ipcMain.handle('test-connection'): checkPeer(ip), lines 276-279 and 293.
\* The front end tests the address of a peer.
TestConnection(ip) ==
    /\ probes' = probes \cup {Probe(ip, 0)}
    /\ UNCHANGED <<peers, isScanning, session, discEvents, rx, scanTimers,
                   tcpServer, udp, udpLeaks, timerLeaks, broadcasting, sweeps,
                   scan, nonDiscVars>>

\* socket.connect(TRANSFER_PORT, ip) of checkPeer, line 293, can succeed: a
\* peer listens at the address, or the address is this host's own and its
\* transfer listener runs.
Listening(ip) == ip \in RemoteIPs \/ (ip \in LocalIPs /\ tcpServer)

\* socket.on('connect') of checkPeer, lines 280-290.
ProbeConnect(p) ==
    /\ p \in probes
    /\ Listening(p.ip)
    /\ IF ~PeerKnown(peers, p.ip)
       THEN /\ peers' = MapSet(peers, p.ip, [lastSeen |-> now])
            /\ discEvents' = Append(discEvents,
                                PeerEvent("peer-discovered", p.ip))
       ELSE UNCHANGED <<peers, discEvents>>
    /\ CommitSweep(Resolved(p, peers'))
    /\ UNCHANGED <<isScanning, session, rx, scanTimers, tcpServer, udp,
                   udpLeaks, timerLeaks, broadcasting, scan, nonDiscVars>>

\* socket.on('error') and socket.on('timeout') of checkPeer, lines 291-292.
ProbeFail(p) ==
    /\ p \in probes
    /\ CommitSweep(Resolved(p, peers))
    /\ UNCHANGED <<peers, isScanning, session, discEvents, rx, scanTimers,
                   tcpServer, udp, udpLeaks, timerLeaks, broadcasting, scan, nonDiscVars>>

\* handleDiscoveryMessage, lines 338-356: a datagram from addr reaches a
\* socket that startDiscovery has bound and that was not closed.
HandleDiscoveryMessage(addr, msg) ==
    /\ udp = "bound" \/ udpLeaks > 0
    /\ rx' = [odd |-> ~rx.odd, addr |-> addr, msg |-> msg]
    /\ IF IsLocal(addr) \/ msg # "discovery"
       THEN UNCHANGED <<peers, discEvents>>
       ELSE IF ~PeerKnown(peers, addr)
       THEN /\ peers' = MapSet(peers, addr, [lastSeen |-> now])
            /\ discEvents' = Append(discEvents,
                                PeerEvent("peer-discovered", addr))
       ELSE /\ peers' = [peers EXCEPT ![addr].lastSeen = now]
            /\ UNCHANGED discEvents
    /\ UNCHANGED <<isScanning, session, scanTimers, probes, tcpServer, udp,
                   udpLeaks, timerLeaks, broadcasting, sweeps, scan, nonDiscVars>>

Probes == {Probe(ip, w) : ip \in RemoteIPs \cup VacantIPs, w \in 0..MaxStarts}

NextDiscovery ==
    \/ StartDiscovery
    \/ UdpBound
    \/ UdpError
    \/ Stop
    \/ FallbackTimer
    \/ \E p \in Probes : ProbeConnect(p)
    \/ \E p \in Probes : ProbeFail(p)
    \/ \E addr \in Addrs, msg \in Datagrams : HandleDiscoveryMessage(addr, msg)

SpecDiscovery == Init /\ [][NextDiscovery]_vars

\* Discovery with the front end testing connections at any time.
NextProbing ==
    \/ NextDiscovery
    \/ \E ip \in RemoteIPs : TestConnection(ip)

SpecProbing == Init /\ [][NextProbing]_vars


\* The step handles a datagram from addr.
Receives(addr) == rx'.odd # rx.odd /\ rx'.addr = addr

DiscoveredEvents(ip, s) ==
    {i \in DOMAIN discEvents :
        /\ discEvents[i].type = "peer-discovered"
        /\ discEvents[i].ip = ip
        /\ discEvents[i].session = s}

\* C18: At-most-once discovery event.  Between two consecutive starts of
\* discovery peer-discovered is emitted at most once per address, whatever
\* the interleaving of presence frames, sweep probes and checkPeer calls;
\* a presence frame from a peer the table holds emits nothing and changes
\* nothing of the table but the lastSeen of that peer.
AtMostOnceDiscovery ==
    /\ [](\A ip \in Addrs : \A s \in 0..MaxStarts :
            Cardinality(DiscoveredEvents(ip, s)) <= 1)
    /\ [][\A ip \in Addrs :
            (Receives(ip) /\ rx'.msg = "discovery" /\ MapHas(peers, ip))
                => /\ discEvents' = discEvents
                   /\ peers' = [peers EXCEPT ![ip].lastSeen = now]]_vars

\* A peer was discovered, discovery was restarted, the peer was discovered
\* again, and the second datagram handled since the restart was a presence
\* frame of that peer.
AtMostOnceDiscoveryWitness ==
    \E ip \in RemoteIPs :
        /\ \E s \in 0..MaxStarts : \E u \in 0..MaxStarts :
                /\ s < u
                /\ DiscoveredEvents(ip, s) # {}
                /\ DiscoveredEvents(ip, u) # {}
                /\ u = session
        /\ MapHas(peers, ip)
        /\ rx.addr = ip /\ rx.msg = "discovery" /\ ~rx.odd
        /\ \A i \in DOMAIN discEvents : discEvents[i].ip = ip
        /\ Len(discEvents) = 2

\* C19: Loopback suppression.  A datagram whose source address is a local
\* IPv4 address never produces a peer-discovered event and never changes the
\* peer table.
LoopbackSuppression ==
    [][\A a \in LocalIPs :
        Receives(a) => (discEvents' = discEvents /\ peers' = peers)]_vars

\* With discovery running and a remote peer in the table, a presence frame
\* from a local address was handled.
LoopbackSuppressionWitness ==
    /\ rx.addr \in LocalIPs
    /\ rx.msg = "discovery"
    /\ isScanning
    /\ \E ip \in RemoteIPs : MapHas(peers, ip)
    /\ \A a \in LocalIPs : ~MapHas(peers, a)

\* C20 as claimed: every startDiscovery call empties the peer table and
\* publishes exactly one peers-cleared event.
StartPublishesPeersCleared ==
    [][session' = session + 1
        => /\ peers' = EmptyMap
           /\ Len(discEvents') = Len(discEvents) + 1
           /\ discEvents'[Len(discEvents')].type = "peers-cleared"]_vars


\* C21 as claimed: after a start, the discovery of peer X and a second start,
\* the next presence frame received from X produces a new peer-discovered
\* event for X.
RestartFrameRediscovers ==
    [][\A x \in RemoteIPs :
        (/\ Receives(x) /\ rx'.msg = "discovery"
         /\ rx = NoDatagram
         /\ \E s \in 1..MaxStarts : s < session /\ DiscoveredEvents(x, s) # {})
            => discEvents' = Append(discEvents,
                                PeerEvent("peer-discovered", x))]_vars

\* C21, amended: re-discovery on restart.  Once a presence frame of peer X
\* has been received after a start of discovery, a peer-discovered event for
\* X has been emitted since that start, by that frame or by a probe that
\* connected to X before it.
RediscoveryOnRestart ==
    \A x \in RemoteIPs :
        (rx.addr = x /\ rx.msg = "discovery")
            => DiscoveredEvents(x, session) # {}

\* Peer X was discovered, discovery was restarted, and the first datagram
\* handled since the restart is a presence frame of X.
RediscoveryOnRestartWitness ==
    \E x \in RemoteIPs :
        /\ session >= 2
        /\ DiscoveredEvents(x, session - 1) # {}
        /\ rx = [odd |-> TRUE, addr |-> x, msg |-> "discovery"]
        /\ DiscoveredEvents(x, session) # {}
        /\ MapHas(peers, x)


\* A startDiscovery call is the step that counts a session.
Starts == session' = session + 1

\* stop was called and startDiscovery has not been called since.
Stopped == session > 0 /\ ~tcpServer

\* C22 as claimed: sweep arming.  Every start and every restart of
\* discovery arms the 5 s timer that launches a subnet sweep when the peer
\* table is still empty.
EveryStartArmsSweep ==
    [][Starts => scanTimers' = scanTimers + 1]_vars

\* C23 as claimed: the TCP transfer listener is bound for the entire
\* lifetime of the engine: from engine start, before any startDiscovery, and
\* after stop.
ListenerBoundForLifetime == tcpServer

\* C24 as claimed: the UDP discovery socket is bound only while discovery is
\* running: an open discovery socket implies that discovery is running.
SocketOnlyWhileScanning == udp = "bound" => isScanning

\* C27 as claimed: restart after stop.  A startDiscovery that follows a stop
\* binds the UDP socket again and arms the 5 s sweep timer.
RestartAfterStop ==
    [][(Stopped /\ Starts)
        => (udp' = "binding" /\ scanTimers' = scanTimers + 1)]_vars

\* C28 as claimed: a stop ends sweeping.  From a stop to the next
\* startDiscovery no probe is launched and no sweep is started.
StopEndsSweeping ==
    [][(Stopped /\ ~Starts)
        => (probes' \subseteq probes /\ Len(sweeps') = Len(sweeps))]_vars


\* Every checkPeer socket resolves: it connects, fails, or its 800 ms
\* timeout fires (lines 279-292).
FairDiscovery ==
    /\ SpecDiscovery
    /\ WF_vars(\E p \in Probes : ProbeConnect(p) \/ ProbeFail(p))

\* C29: Sweep termination.  Every sweep terminates: after it has sent
\* 'advanced-scanning' it eventually sends 'idle', and it has sent 'idle'
\* only when every probe it launched has resolved.
SweepTerminates ==
    /\ [](\A w \in DOMAIN sweeps :
            sweeps[w].st = "idle" => \A q \in probes : q.sweep # w)
    /\ \A w \in 1..MaxStarts :
            (Len(sweeps) >= w) ~> (Len(sweeps) >= w /\ sweeps[w].st = "idle")

\* A sweep has ended with the table empty, none of its probes is left, and
\* another sweep is still probing.
SweepTerminatesWitness ==
    \E w \in DOMAIN sweeps : \E v \in DOMAIN sweeps :
        /\ sweeps[w].st = "idle"
        /\ DOMAIN peers = {}
        /\ sweeps[v].st = "advanced-scanning"
        /\ \E q \in probes : q.sweep = v


\* The probes of sweep w.
ProbesOf(pr, w) == {q \in pr : q.sweep = w}

ThrottleStreams ==
    { ShortStream(<<"{", "t", "n", "}">>, InboundPayload, MaxPayload,
                  <<"caller", 1>>, {MaxChunk - 1}) }

NextThrottle ==
    \/ TransferToPeer(1)
    \/ \E k \in SendNos : ConnectOk(k)
    \/ \E k \in SendNos : Flushed(k)
    \/ \E k \in SendNos : SendChunk(k)
    \/ \E k \in SendNos : SendDone(k)
    \/ \E c \in 1..Len(calls) : GapElapsed(c)
    \/ Tick
    \/ \E s \in ThrottleStreams : Accept(1, s)
    \/ OnData(1)
    \/ PipeData(1)
    \/ PipeEnd(1)

SpecThrottle == Serving /\ [][NextThrottle]_vars


\* A progress event of the throttled callback: it reports the bytes counted
\* so far, at least one chunk.
Throttled(i) == CountedProgress(i) /\ events[i].bytes > 0

ThrottledOf(src) == {i \in DOMAIN events : Throttled(i) /\ events[i].src = src}

\* C25: Throttled progress.  Any two throttled progress events of one
\* transfer are at least 500 ms apart, the first comes at least 500 ms after
\* the transfer's 'connecting' notice, and a transfer has emitted at most one
\* throttled event per 500 ms that have passed.
ThrottledProgress ==
    /\ \A i \in DOMAIN events : \A j \in DOMAIN events :
        (i < j /\ Throttled(j) /\ events[i].src = events[j].src
               /\ (Throttled(i) \/ events[i].status = "connecting"))
            => events[j].at - events[i].at >= ThrottleMs
    /\ \A i \in DOMAIN events :
        Cardinality(ThrottledOf(events[i].src)) * ThrottleMs <= now

\* A send and an inbound transfer have each emitted two throttled progress
\* events, 500 ms apart.
ThrottledProgressWitness ==
    /\ \E i \in ThrottledOf(SendHandle(1)) : \E j \in ThrottledOf(SendHandle(1)) :
            events[j].at - events[i].at = ThrottleMs
    /\ \E i \in ThrottledOf(RecvHandle(1)) : \E j \in ThrottledOf(RecvHandle(1)) :
            events[j].at - events[i].at = ThrottleMs


\* The size a transfer declares: the size of the file sent, or the length of
\* the payload an inbound stream announces.
TotalSize(src) == IF src.kind = "send" THEN FileSize ELSE MaxPayload

\* C26 as claimed: boundary progress events.  Every transfer that has
\* emitted transfer-complete, sending or receiving, has emitted before it a
\* progress event at 0% and a progress event whose byte count is the total
\* size.
BoundaryProgress ==
    \A i \in DOMAIN events :
        events[i].type = "complete"
            => /\ \E j \in 1..(i - 1) :
                    /\ CountedProgress(j)
                    /\ events[j].src = events[i].src
                    /\ events[j].bytes = 0
               /\ \E j \in 1..(i - 1) :
                    /\ CountedProgress(j)
                    /\ events[j].src = events[i].src
                    /\ events[j].bytes = TotalSize(events[i].src)


\* C31: Probe batching.  A sweep has at most BatchSize probes outstanding
\* at any time, and it launches probes only when none of the probes it
\* launched before is outstanding.
ProbeBatching ==
    /\ [](\A w \in DOMAIN sweeps :
            Cardinality(ProbesOf(probes, w)) <= BatchSize)
    /\ [][\A w \in DOMAIN sweeps :
            ProbesOf(probes', w) \subseteq ProbesOf(probes, w)
                \/ ProbesOf(probes, w) \cap ProbesOf(probes', w) = {}]_vars

\* A sweep whose first batch was full has its last batch in flight while
\* another sweep has a full batch in flight.
ProbeBatchingWitness ==
    \E w \in DOMAIN sweeps : \E v \in DOMAIN sweeps :
        /\ sweeps[w].st = "advanced-scanning"
        /\ sweeps[w].todo = <<>>
        /\ ProbesOf(probes, w) # {}
        /\ Cardinality(ProbesOf(probes, v)) = BatchSize


(***************************************************************************)
(* The targets of scanSubnet, lines 239-262, with the 32-bit integer       *)
(* operators of JavaScript.  An address has four octets of OctetBits bits  *)
(* (8 in the source), a word has WordBits bits (32 in the source): the     *)
(* bitwise operators return a signed word, `>>> 0` an unsigned one.        *)
(***************************************************************************)
OctetSize == 2 ^ OctetBits
WordBits == 4 * OctetBits
WordSize == 2 ^ WordBits

ToUint32(x) == x % WordSize

ToInt32(x) == IF x % WordSize >= WordSize \div 2
              THEN (x % WordSize) - WordSize
              ELSE x % WordSize

RECURSIVE BitAnd(_, _, _)
BitAnd(a, b, n) ==
    IF n = 0 THEN 0
    ELSE (a % 2) * (b % 2) + 2 * BitAnd(a \div 2, b \div 2, n - 1)

RECURSIVE BitOr(_, _, _)
BitOr(a, b, n) ==
    IF n = 0 THEN 0
    ELSE (IF a % 2 = 1 \/ b % 2 = 1 THEN 1 ELSE 0)
            + 2 * BitOr(a \div 2, b \div 2, n - 1)

\* a & b, a | b, ~a, a << n, a >>> n
And32(a, b) == ToInt32(BitAnd(ToUint32(a), ToUint32(b), WordBits))

Or32(a, b) == ToInt32(BitOr(ToUint32(a), ToUint32(b), WordBits))

Not32(a) == ToInt32(WordSize - 1 - ToUint32(a))

Shl32(a, n) == ToInt32(ToUint32(a) * 2 ^ n)

Ushr32(a, n) == ToUint32(a) \div 2 ^ n

\* ipToLong, lines 25-28.
ipToLong(ip) ==
    ToUint32(Or32(Or32(Or32(Shl32(ip[1], 3 * OctetBits),
                            Shl32(ip[2], 2 * OctetBits)),
                       Shl32(ip[3], OctetBits)),
                  ip[4]))

\* longToIp, lines 30-37.
longToIp(long) ==
    << And32(Ushr32(long, 3 * OctetBits), OctetSize - 1),
       And32(Ushr32(long, 2 * OctetBits), OctetSize - 1),
       And32(Ushr32(long, OctetBits), OctetSize - 1),
       And32(long, OctetSize - 1) >>

\* `(broadcastLong - networkLong) <= 256`, line 252: 256 is the number of
\* values of an octet.
SubnetSwept_Any(networkLong, broadcastLong) == TRUE

SubnetSwept(networkLong, broadcastLong) ==
    broadcastLong - networkLong <= OctetSize

\* The loop body of scanSubnet for one interface, lines 246-260.
ScanTargets(address, netmask, localIPs) ==
    LET ipLong == ipToLong(address)
        maskLong == ipToLong(netmask)
        networkLong == And32(ipLong, maskLong)
        broadcastLong == Or32(networkLong, ToUint32(Not32(maskLong)))
        all == [k \in 1..(broadcastLong - networkLong - 1)
                    |-> longToIp(networkLong + k)]
    IN  IF SubnetSwept(networkLong, broadcastLong)
        THEN SelectSeq(all, LAMBDA ip : ip \notin localIPs)
        ELSE <<>>

Quads == [1..4 -> 0..(OctetSize - 1)]

\* The address with the number v, and the netmask with h host bits.
Quad(v) ==
    << v \div (OctetSize ^ 3), (v \div (OctetSize ^ 2)) % OctetSize,
       (v \div OctetSize) % OctetSize, v % OctetSize >>

Netmask(h) == Quad(WordSize - 2 ^ h)

Netmasks == {Netmask(h) : h \in 0..WordBits}

\* getLocalIPs, lines 176-187: the address of the interface and the
\* loopback address.
Loopback == <<1, 0, 0, 1>>

LocalOf(address) == {address, Loopback}

\* The host has an interface with this address and netmask.
Interface(address, netmask) ==
    /\ scan = NoScan
    /\ scan' = [address |-> address, netmask |-> netmask, done |-> FALSE,
                targets |-> <<>>]
    /\ UNCHANGED <<peers, isScanning, session, discEvents, rx, scanTimers,
                   probes, tcpServer, udp, udpLeaks, timerLeaks, broadcasting, sweeps,
                   nonDiscVars>>

\* scanSubnet lists its targets, lines 239-262.
ListTargets ==
    /\ scan # NoScan
    /\ ~scan.done
    /\ scan' = [scan EXCEPT !.done = TRUE,
                    !.targets = ScanTargets(scan.address, scan.netmask,
                                            LocalOf(scan.address))]
    /\ UNCHANGED <<peers, isScanning, session, discEvents, rx, scanTimers,
                   probes, tcpServer, udp, udpLeaks, timerLeaks, broadcasting, sweeps,
                   nonDiscVars>>

NextTargets ==
    \/ /\ scan = NoScan
       /\ \E address \in Quads, netmask \in Netmasks :
                Interface(address, netmask)
    \/ ListTargets

SpecTargets == Init /\ [][NextTargets]_vars

\* An address as a number, and the number of host bits of a netmask.
Value(q) ==
    ((q[1] * OctetSize + q[2]) * OctetSize + q[3]) * OctetSize + q[4]

HostBits(netmask) == CHOOSE h \in 0..WordBits : Netmask(h) = netmask

\* The addresses strictly between the network address and the directed
\* broadcast address of the subnet.
HostsBetween(address, netmask) ==
    LET size == 2 ^ HostBits(netmask)
        network == Value(address) - (Value(address) % size)
    IN  {Quad(v) : v \in (network + 1)..(network + size - 2)}

\* C32: Sweep target set.  For an interface whose subnet is /24 or smaller
\* (at most one octet of host bits) the targets are exactly the addresses
\* strictly between the network address and the directed broadcast address,
\* minus the local addresses, each once; a larger subnet has no target.
\* This holds for every address, also with the top bit of the first octet
\* set.
SweepTargetSet ==
    scan.done =>
        LET T == scan.targets
            want == IF HostBits(scan.netmask) <= OctetBits
                    THEN HostsBetween(scan.address, scan.netmask)
                            \ LocalOf(scan.address)
                    ELSE {}
        IN  /\ {T[i] : i \in DOMAIN T} = want
            /\ Len(T) = Cardinality(want)

\* The targets of a subnet with a full octet of host bits were listed for an
\* address whose first octet has its top bit set.
SweepTargetSetWitness ==
    /\ scan.done
    /\ scan.address[1] >= OctetSize \div 2
    /\ HostBits(scan.netmask) = OctetBits
    /\ Len(scan.targets) = OctetSize - 3


(***************************************************************************)
(* SpecHeader: SpecFraming plus peers that send a header of HeaderLimit    *)
(* bytes or one more without ever sending the newline (lines 416-425).     *)
(***************************************************************************)
HeaderStreams ==
    FramingStreams
        \cup { Truncated([i \in 1..n |-> "x"], 1..MaxChunk) :
                    n \in HeaderLimit..(HeaderLimit + 1) }

NextHeader ==
    \/ \E s \in HeaderStreams : Accept(1, s)
    \/ OnData(1)
    \/ PipeData(1)
    \/ PipeEnd(1)
    \/ PeerClose(1)

SpecHeader == Serving /\ [][NextHeader]_vars

\* C33 as claimed: header size limit.  Once HeaderLimit bytes (65,536 in the
\* source) are buffered on an inbound connection without a newline, the
\* connection is no longer open and no file has been created for it.
HeaderSizeLimit ==
    \A c \in ConnIds :
        (/\ conns[c].st # "free"
         /\ ~conns[c].receiving
         /\ IndexOfNL(conns[c].metaBuffer) = 0
         /\ Len(conns[c].metaBuffer) >= HeaderLimit)
            => (conns[c].st # "open" /\ ~conns[c].fileOpen)

\* C34 as claimed: registering a transfer under an id that is already in the
\* registry is rejected and leaves the existing entry unchanged, so a send
\* whose registration found its id in the registry does not install its own
\* handle for that id.
RegisterKeepsExisting ==
    [][\A k \in (DOMAIN sends') \ (DOMAIN sends) :
            sends'[k].replaced
                => activeTransfers'[sends'[k].id] # SendHandle(k)]_vars

\* C35: Metadata precedes payload.  On every send the metadata line is
\* written to the socket at most once and before anything else, and no
\* payload byte is written until the flush callback of that write has fired:
\* a step that writes payload finds one metadata write, already flushed.
MetadataPrecedesPayload ==
    /\ [](\A k \in DOMAIN sends :
            /\ sends[k].metaWrites <= 1
            /\ sends[k].flushed => sends[k].metaWrites = 1
            /\ sends[k].transferred > 0
                    => sends[k].metaWrites = 1 /\ sends[k].flushed)
    /\ [][\A k \in DOMAIN sends :
            sends'[k].transferred > sends[k].transferred
                => sends[k].metaWrites = 1 /\ sends[k].flushed]_vars

\* The second file of a batch went out whole after its metadata line.
MetadataPrecedesPayloadWitness ==
    \E k \in DOMAIN sends :
        /\ k > 1
        /\ sends[k].metaWrites = 1
        /\ sends[k].flushed
        /\ sends[k].transferred = FileSize
        /\ sends[k].promise = "resolved"

\* C36: Serial sending.  At most one send is in flight (its promise not yet
\* settled) at any instant, and a send starts only when every earlier send
\* has settled, the files of a batch being taken in the order of the request.
SerialSending ==
    /\ [](Cardinality({k \in DOMAIN sends : sends[k].promise = "pending"}) <= 1)
    /\ [][\A k \in (DOMAIN sends') \ (DOMAIN sends) :
            \A j \in DOMAIN sends :
                /\ sends'[j].promise # "pending"
                /\ sends[j].call = sends'[k].call
                        => sends[j].file < sends'[k].file]_vars

\* The second file of a batch is in flight after the first was delivered.
SerialSendingWitness ==
    \E k \in DOMAIN sends :
        /\ k > 1
        /\ sends[k].call = sends[k - 1].call
        /\ sends[k - 1].promise = "resolved"
        /\ sends[k].promise = "pending"
        /\ sends[k].transferred > 0


(***************************************************************************)
(* SpecSelfTest: discovery as in SpecDiscovery, with 'test-connection'     *)
(* requests (check-env.js lines 291-301) that name an address of this host. *)
(***************************************************************************)
SelfProbes == {Probe(ip, 0) : ip \in LocalIPs}

NextSelfTest ==
    \/ NextDiscovery
    \/ \E ip \in LocalIPs : TestConnection(ip)
    \/ \E p \in SelfProbes : ProbeConnect(p)
    \/ \E p \in SelfProbes : ProbeFail(p)

SpecSelfTest == Init /\ [][NextSelfTest]_vars

\* C37 as claimed: the peer table never contains a local IPv4 address,
\* whatever presence frames, sweeps and checkPeer / 'test-connection' calls
\* have happened.
NoLocalPeer == \A a \in LocalIPs : ~MapHas(peers, a)

\* C38 as claimed: batch abort rule.  When the send in flight fails because
\* the connection is refused or times out while connecting, no further file
\* of the batch is attempted and the batch returns a failure; after any other
\* failure of a send the batch goes on: it has not returned a failure.
BatchAbortRule ==
    [][\A k \in DOMAIN sends :
        LET c == sends[k].call
            unsettled == sends[k].promise = "pending"
            connecting == sends[k].st = "connecting"
            abort == \/ SendSocketError(k, "ECONNREFUSED")
                     \/ connecting /\ SendTimeout(k)
            other == \/ \E err \in (ConnectErrors \cup StreamErrors)
                                        \ {"ECONNREFUSED"} :
                            SendSocketError(k, err)
                     \/ SendReadError(k)
        IN  /\ (unsettled /\ abort)
                => /\ Len(sends') = Len(sends)
                   /\ calls'[c].st = "returned"
                   /\ calls'[c].result = "failed"
            /\ (unsettled /\ other)
                => calls'[c].result # "failed"]_vars


(***************************************************************************)
(* SpecOverlap: two peers connect at about the same time and send files    *)
(* with the same name (lines 427-438) and different contents.              *)
(***************************************************************************)
Pair == {1, 2}

OverlapStreams ==
    { Stream(<<"{", "n", "}">>, p, <<"caller", 1>>, {1, MaxChunk}) :
        p \in {<<"x", "x">>, <<"t", "n">>} }

ServingPair ==
    /\ activeTransfers = EmptyMap
    /\ events = <<>>
    /\ now = 0
    /\ ticks = 0
    /\ conns = [c \in Pair |-> FreeConn]
    /\ cancels = <<>>
    /\ batchTransferActive = FALSE
    /\ calls = <<>>
    /\ sends = <<>>
    /\ peers = EmptyMap
    /\ isScanning = TRUE
    /\ session = 1
    /\ discEvents = <<>>
    /\ rx = NoDatagram
    /\ scanTimers = 1
    /\ probes = {}
    /\ tcpServer = TRUE
    /\ udp = "binding"
    /\ udpLeaks = 0
    /\ timerLeaks = 0
    /\ broadcasting = FALSE
    /\ sweeps = <<>>
    /\ scan = NoScan
    /\ disk = NoFile

NextOverlap ==
    \/ \E c \in Pair, s \in OverlapStreams : Accept(c, s)
    \/ \E c \in Pair : OnData(c)
    \/ \E c \in Pair : PipeData(c)
    \/ \E c \in Pair : PipeEnd(c)

SpecOverlap == ServingPair /\ [][NextOverlap]_vars

\* C39 as claimed: no two in-flight receives write to the same destination
\* file.  Two inbound connections that declare the same file name never have
\* their write streams open on the destination path at the same time, and
\* once both have ended the file at the path holds the payload of one of
\* them.
OneWriterPerDestination ==
    \A c, d \in DOMAIN conns :
        c # d =>
            /\ ~(/\ conns[c].st = "open" /\ conns[c].receiving
                 /\ conns[d].st = "open" /\ conns[d].receiving)
            /\ (/\ conns[c].st = "closed" /\ conns[c].fileOpen
                /\ conns[d].st = "closed" /\ conns[d].fileOpen)
                    => disk.content \in {conns[c].payload, conns[d].payload}


\* The discovery sockets that are open and the broadcast intervals that run.
OpenSockets == (IF udp \in {"binding", "bound"} THEN 1 ELSE 0) + udpLeaks

LiveTimers == (IF broadcasting THEN 1 ELSE 0) + timerLeaks

\* C40 as claimed: discovery resources are singular.  Across any sequence of
\* startDiscovery calls, UDP socket errors and stop calls at most one
\* discovery UDP socket is open and at most one broadcast interval runs,
\* and after stop neither remains.
SingularDiscoveryResources ==
    /\ OpenSockets <= 1
    /\ LiveTimers <= 1
    /\ Stopped => (OpenSockets = 0 /\ LiveTimers = 0)
====
